---- MODULE Spec2Model ----
(***************************************************************************)
(* A model of the Remote class (src/remote.py): a bare local mirror of one *)
(* ref of a git origin, with list / read / update / create / delete /      *)
(* rename operations that each build a new tree, commit it on the local    *)
(* ref and push.                                                           *)
(*                                                                         *)
(* Objects are content addressed, so an object id is modelled by the       *)
(* object's value: a blob is its bytes, a tree is its entries, and an      *)
(* entry holds the object it names.  A commit id is the commit's position  *)
(* in the sequence of commits the mirror holds.                            *)
(***************************************************************************)
EXTENDS Integers, Sequences, FiniteSets, TLC

VARIABLES
    odb,       \* the blobs and trees in the local mirror (self.repo)
    commits,   \* the commits in the local mirror, in creation order
    ref,       \* target of the local reference self.ref (0: absent)
    origin,    \* target of the same-named reference at the origin
    needsCred, \* the origin accepts a push only with the credential
    last,      \* the last call: its arguments, its outcome, the state before
    calls,     \* by caller, the call of update_file_content it is inside
    done,      \* the calls of update_file_content that ended, in that order
    cache,     \* _REMOTE_SINGLETONS and the requests served from it
    reads      \* the get_files or get_file_content that runs beside the writes

vars == <<odb, commits, ref, origin, needsCred, last, calls, done, cache, reads>>

(***************************************************************************)
(* Bounds and inputs.                                                      *)
(***************************************************************************)
MaxCommits == 2   \* commits a mirror may hold (the fetched tip included)
MaxCalls == 2     \* calls the callers that share a Remote make between them
MaxWrites == 2    \* writes made through a Session that is followed from its opening
MaxOpens == 2     \* mirrors the requests of one access token may make
MaxForeign == 2   \* Versions other Sessions push to the origin of a followed Session
MaxReads == 1     \* reads begun beside the writes of a caller

SLASH == "/"

\* pygit2 file modes
GITMODE_TREE == 16384    \* 0o040000
GITMODE_FILE == 33188    \* 0o100644
GITMODE_EXEC == 33261    \* 0o100755

None == [type |-> "none"]

\* Path strings are sequences of characters; a name is a sequence of
\* characters without the separator.
P_a == <<"a">>
P_ab == <<"a", SLASH, "b">>
P_ac == <<"a", SLASH, "c">>
P_abc == <<"a", SLASH, "b", SLASH, "c">>
P_ab_decorated == <<SLASH, "a", SLASH, SLASH, "b", SLASH>>
P_root == <<SLASH>>
P_empty == << >>

PathArgs == {P_a, P_ab, P_ac, P_abc, P_ab_decorated, P_root}

\* rename_file tests its arguments for the empty string first
RenameArgs == PathArgs \cup {P_empty}

\* a write is asked not to push, or pushes and the origin takes it or not
PushArgs == {[push |-> FALSE, net_ok |-> TRUE], [push |-> TRUE, net_ok |-> TRUE],
             [push |-> TRUE, net_ok |-> FALSE]}

\* Text contents are sequences of code points.
C_x == <<120>>                 \* "x"
C_euro == <<233, 8364>>        \* two- and three-byte code points
C_surrogate == <<55296>>       \* a lone surrogate: not encodable

ContentArgs == {C_x, C_euro, C_surrogate}

(***************************************************************************)
(* str.encode("utf-8") and bytes.decode("utf-8", errors="replace").        *)
(***************************************************************************)
IsSurrogate(cp) == cp >= 55296 /\ cp <= 57343

EncodeCodePoint(cp) ==
    IF cp < 128 THEN <<cp>>
    ELSE IF cp < 2048 THEN <<192 + (cp \div 64), 128 + (cp % 64)>>
    ELSE IF cp < 65536
         THEN <<224 + (cp \div 4096), 128 + ((cp \div 64) % 64), 128 + (cp % 64)>>
    ELSE <<240 + (cp \div 262144), 128 + ((cp \div 4096) % 64),
           128 + ((cp \div 64) % 64), 128 + (cp % 64)>>

RECURSIVE encode_utf8(_)
encode_utf8(s) ==
    IF s = << >> THEN << >> ELSE EncodeCodePoint(Head(s)) \o encode_utf8(Tail(s))

\* encode raises UnicodeEncodeError on a surrogate
Encodable(s) == \A i \in 1..Len(s) : ~IsSurrogate(s[i])

IsCont(b) == b >= 128 /\ b <= 191

REPLACEMENT == 65533

\* The first code point of a non-empty byte string and how many bytes it
\* takes; an ill-formed prefix decodes to U+FFFD.
DecodeStep(bs) ==
    LET b1 == bs[1]
        n == Len(bs)
        lo2 == IF b1 = 224 THEN 160 ELSE IF b1 = 240 THEN 144 ELSE 128
        hi2 == IF b1 = 237 THEN 159 ELSE IF b1 = 244 THEN 143 ELSE 191
        ok2 == n >= 2 /\ bs[2] >= lo2 /\ bs[2] <= hi2
        ok3 == n >= 3 /\ IsCont(bs[3])
        ok4 == n >= 4 /\ IsCont(bs[4])
        bad(k) == [cp |-> REPLACEMENT, len |-> k]
    IN  IF b1 < 128 THEN [cp |-> b1, len |-> 1]
        ELSE IF b1 >= 194 /\ b1 <= 223
             THEN IF ok2 THEN [cp |-> (b1 - 192) * 64 + (bs[2] - 128), len |-> 2]
                  ELSE bad(1)
        ELSE IF b1 >= 224 /\ b1 <= 239
             THEN IF ~ok2 THEN bad(1)
                  ELSE IF ~ok3 THEN bad(2)
                  ELSE [cp |-> (b1 - 224) * 4096 + (bs[2] - 128) * 64 + (bs[3] - 128),
                        len |-> 3]
        ELSE IF b1 >= 240 /\ b1 <= 244
             THEN IF ~ok2 THEN bad(1)
                  ELSE IF ~ok3 THEN bad(2)
                  ELSE IF ~ok4 THEN bad(3)
                  ELSE [cp |-> (b1 - 240) * 262144 + (bs[2] - 128) * 4096
                                + (bs[3] - 128) * 64 + (bs[4] - 128),
                        len |-> 4]
        ELSE bad(1)

RECURSIVE decode_utf8_replace(_)
decode_utf8_replace(bs) ==
    IF bs = << >> THEN << >>
    ELSE LET d == DecodeStep(bs)
         IN  <<d.cp>> \o decode_utf8_replace(SubSeq(bs, d.len + 1, Len(bs)))

(***************************************************************************)
(* Objects.                                                                *)
(***************************************************************************)
Blob(data) == [type |-> "blob", data |-> data]

Tree(entries) == [type |-> "tree", entries |-> entries]

Entry(id, filemode) == [id |-> id, filemode |-> filemode]

NoEntries == [n \in {} |-> None]

EmptyTree == Tree(NoEntries)

\* TreeBuilder.insert: add the entry, replacing one of the same name
BuilderInsert(entries, name, id, filemode) ==
    [n \in (DOMAIN entries) \cup {name} |->
        IF n = name THEN Entry(id, filemode) ELSE entries[n]]

\* TreeBuilder.remove as a slip would have it: the other entries go too
BuilderRemoveAll(entries, name) == NoEntries

\* TreeBuilder.remove
BuilderRemove(entries, name) ==
    [n \in (DOMAIN entries) \ {name} |-> entries[n]]

\* TreeBuilder as a slip would have it: every builder starts empty
TreeBuilderFresh(base_tree) == NoEntries

\* repo.TreeBuilder(base_tree) if base_tree else repo.TreeBuilder()
TreeBuilder(base_tree) ==
    IF base_tree = None THEN NoEntries ELSE base_tree.entries

\* [p for p in path.split("/") if p]
RECURSIVE SplitAt(_, _)
SplitAt(s, cur) ==
    IF s = << >> THEN <<cur>>
    ELSE IF Head(s) = SLASH THEN <<cur>> \o SplitAt(Tail(s), << >>)
    ELSE SplitAt(Tail(s), Append(cur, Head(s)))

split(s) == SplitAt(s, << >>)

NonEmpty(seg) == seg # << >>

\* PathParts as a slip would have it: the empty segments are kept
PathPartsKeepEmpty(path) == split(path)

PathParts(path) == SelectSeq(split(path), NonEmpty)

(***************************************************************************)
(* Exceptions: a call ends "ok" or raises; the raised exception is a       *)
(* record of its class and message.                                        *)
(***************************************************************************)
Raise(exc, msg) == [type |-> "error", exc |-> exc, msg |-> msg]

IsError(r) == r.type = "error"

\* _walk_to_tree as a slip would have it: a file on the way is reported as
\* a directory that is missing
RECURSIVE _walk_to_tree_missing(_, _)
_walk_to_tree_missing(tree, parts) ==
    IF parts = << >> THEN tree
    ELSE LET name == Head(parts)
         IN  IF name \notin DOMAIN tree.entries
                \/ tree.entries[name].filemode # GITMODE_TREE
             THEN Raise("KeyError", "Directory not found")
             ELSE _walk_to_tree_missing(tree.entries[name].id, Tail(parts))

\* Remote._walk_to_tree: the subtree at parts, or KeyError
RECURSIVE _walk_to_tree(_, _)
_walk_to_tree(tree, parts) ==
    IF parts = << >> THEN tree
    ELSE LET name == Head(parts)
         IN  IF name \notin DOMAIN tree.entries
             THEN Raise("KeyError", "Directory not found")
             ELSE IF tree.entries[name].filemode # GITMODE_TREE
             THEN Raise("KeyError", "Path component is not a directory")
             ELSE _walk_to_tree(tree.entries[name].id, Tail(parts))

\* Remote._tree_to_dict: name -> None for a file, a nested mapping for a tree
RECURSIVE _tree_to_dict(_)
_tree_to_dict(tree) ==
    [n \in DOMAIN tree.entries |->
        IF tree.entries[n].filemode = GITMODE_TREE
        THEN [dict |-> _tree_to_dict(tree.entries[n].id)]
        ELSE None]

Written(oid, objs) == [type |-> "ok", oid |-> oid, objs |-> objs]

\* the entry of base_tree named dirname that is a tree, else None
SubTreeObj(base_tree, dirname) ==
    IF base_tree # None /\ dirname \in DOMAIN base_tree.entries
       /\ base_tree.entries[dirname].filemode = GITMODE_TREE
    THEN base_tree.entries[dirname].id
    ELSE None  \* missing, or: overwrite non-dir with new dir

\* LeafInsert as a slip would have it: an entry already there is kept
LeafInsertKeep(base_tree, filename, leaf_blob_oid, leaf_mode) ==
    IF filename \in DOMAIN TreeBuilder(base_tree)
    THEN Tree(TreeBuilder(base_tree))
    ELSE Tree(BuilderInsert(TreeBuilder(base_tree), filename, leaf_blob_oid, leaf_mode))

\* the leaf step of _write_tree_with_update
LeafInsert(base_tree, filename, leaf_blob_oid, leaf_mode) ==
    Tree(BuilderInsert(TreeBuilder(base_tree), filename, leaf_blob_oid, leaf_mode))

\* Remote._write_tree_with_update: the new tree and the tree objects written
RECURSIVE _write_tree_with_update(_, _, _, _)
_write_tree_with_update(base_tree, path_parts, leaf_blob_oid, leaf_mode) ==
    IF Len(path_parts) = 1
    THEN LET t == LeafInsert(base_tree, path_parts[1], leaf_blob_oid, leaf_mode)
         IN  Written(t, {t})
    ELSE IF path_parts = << >>
    THEN Raise("IndexError", "list index out of range")
    ELSE LET dirname == Head(path_parts)
             sub == _write_tree_with_update(SubTreeObj(base_tree, dirname),
                                            Tail(path_parts), leaf_blob_oid, leaf_mode)
             t == Tree(BuilderInsert(TreeBuilder(base_tree), dirname, sub.oid,
                                     GITMODE_TREE))
         IN  Written(t, sub.objs \cup {t})

\* NoneIfEmpty as a slip would have it: an emptied tree is returned as it is
NoneIfEmptyKeep(t) == t

\* the tree a level of _write_tree_with_delete returns: None when empty
NoneIfEmpty(t) == IF DOMAIN t.entries = {} THEN None ELSE t

\* Remote._write_tree_with_delete
RECURSIVE _write_tree_with_delete(_, _)
_write_tree_with_delete(base_tree, path_parts) ==
    IF base_tree = None THEN Raise("KeyError", "Path not found")
    ELSE LET name == Head(path_parts)
         IN  IF name \notin DOMAIN base_tree.entries
             THEN Raise("KeyError", "Path not found")
             ELSE LET entry == base_tree.entries[name]
                  IN  IF Len(path_parts) = 1
                      THEN IF entry.filemode = GITMODE_TREE
                           THEN Raise("KeyError", "Path is a directory")
                           ELSE LET t == Tree(BuilderRemove(base_tree.entries, name))
                                IN  Written(NoneIfEmpty(t), {t})
                      ELSE IF entry.filemode # GITMODE_TREE
                           THEN Raise("KeyError", "Path component is not a directory")
                           ELSE LET sub == _write_tree_with_delete(entry.id,
                                                                   Tail(path_parts))
                                IN  IF IsError(sub) THEN sub
                                    ELSE LET t == Tree(
                                                 IF sub.oid = None
                                                 THEN BuilderRemove(base_tree.entries, name)
                                                 ELSE BuilderInsert(base_tree.entries, name,
                                                                    sub.oid, GITMODE_TREE))
                                         IN  Written(NoneIfEmpty(t), sub.objs \cup {t})

(***************************************************************************)
(* The mirror: R is a record of odb, commits, ref, origin and needsCred.   *)
(* A call returns the mirror it leaves, the exception it raised ("" when   *)
(* it returned) and the value it returned.                                 *)
(***************************************************************************)
Returned(R, ret) == [repo |-> R, exc |-> "", msg |-> "", ret |-> ret]

Raised(R, e) == [repo |-> R, exc |-> e.exc, msg |-> e.msg, ret |-> None]

\* Remote._get_commit: the commit id at self.ref
_get_commit(R) ==
    IF R.ref = 0 THEN Raise("KeyError", "reference not found")
    ELSE [type |-> "ok", id |-> R.ref]

CommitTree(R, id) == R.commits[id].tree

AUTHOR == "Stateless Bot"

\* message or f"<verb> {path}"
CommitMessage(message, verb, path) ==
    IF message = "" THEN <<verb, path>> ELSE <<message>>

\* create_commit as a last-write-wins rebind would have it: the reference
\* is moved whatever it pointed to
create_commit_unchecked(R, commit_msg, tree_oid, parent) ==
    [type |-> "ok",
     oid |-> Len(R.commits) + 1,
     repo |-> [R EXCEPT
                 !.commits = Append(@, [tree |-> tree_oid, parents |-> <<parent>>,
                                        message |-> commit_msg, author |-> AUTHOR]),
                 !.ref = Len(R.commits) + 1]]

\* create_commit as a slip would have it: the commit has no parent
create_commit_orphan(R, commit_msg, tree_oid, parent) ==
    IF R.ref # parent
    THEN Raise("GitError", "current tip is not the first parent")
    ELSE [type |-> "ok",
          oid |-> Len(R.commits) + 1,
          repo |-> [R EXCEPT
                      !.commits = Append(@, [tree |-> tree_oid, parents |-> << >>,
                                             message |-> commit_msg, author |-> AUTHOR]),
                      !.ref = Len(R.commits) + 1]]

\* repo.create_commit(self.ref, sig, sig, msg, tree, [parent]): the commit is
\* added and the reference moved to it; libgit2 refuses when the reference
\* is not at the first parent
create_commit(R, commit_msg, tree_oid, parent) ==
    IF R.ref # parent
    THEN Raise("GitError", "current tip is not the first parent")
    ELSE [type |-> "ok",
          oid |-> Len(R.commits) + 1,
          repo |-> [R EXCEPT
                      !.commits = Append(@, [tree |-> tree_oid, parents |-> <<parent>>,
                                             message |-> commit_msg, author |-> AUTHOR]),
                      !.ref = Len(R.commits) + 1]]

\* a is b or one of b's ancestors in the mirror
RECURSIVE IsAncestor(_, _, _)
IsAncestor(R, a, b) ==
    \/ a = b
    \/ /\ b \in 1..Len(R.commits)
       /\ R.commits[b].parents # << >>
       /\ IsAncestor(R, a, R.commits[b].parents[1])

\* push as a slip would have it: only the Version that follows the origin's
\* target is published
push_ref_next_only(R, has_credentials, net_ok) ==
    IF net_ok /\ (has_credentials \/ ~R.needsCred) /\ IsAncestor(R, R.origin, R.ref)
    THEN [type |-> "ok",
          repo |-> [R EXCEPT !.origin = IF R.origin < R.ref THEN R.origin + 1 ELSE R.ref]]
    ELSE Raise("GitError", "push failed")

\* push with a '+' in the refspec: the origin is moved whatever it held
push_ref_forced(R, has_credentials, net_ok) ==
    IF net_ok /\ (has_credentials \/ ~R.needsCred)
    THEN [type |-> "ok", repo |-> [R EXCEPT !.origin = R.ref]]
    ELSE Raise("GitError", "push failed")

\* self.remote.push([self.ref], callbacks=...): publishes the local target,
\* or raises and leaves the origin as it was
push_ref(R, has_credentials, net_ok) ==
    IF net_ok /\ (has_credentials \/ ~R.needsCred) /\ IsAncestor(R, R.origin, R.ref)
    THEN [type |-> "ok", repo |-> [R EXCEPT !.origin = R.ref]]
    ELSE Raise("GitError", "push failed")

\* CommitAndPush as a variant would have it: a failed push undoes the commit
CommitAndPushRollback(R, commit_msg, new_tree_oid, parent, push, has_credentials, net_ok) ==
    LET c == create_commit(R, commit_msg, new_tree_oid, parent)
    IN  IF IsError(c) THEN Raised(R, c)
        ELSE IF ~push THEN Returned(c.repo, c.oid)
        ELSE LET p == push_ref(c.repo, has_credentials, net_ok)
             IN  IF IsError(p) THEN Raised(R, p)
                 ELSE Returned(p.repo, c.oid)

\* the tail of every write: commit new_tree_oid on the reference, then push
CommitAndPush(R, commit_msg, new_tree_oid, parent, push, has_credentials, net_ok) ==
    LET c == create_commit(R, commit_msg, new_tree_oid, parent)
    IN  IF IsError(c) THEN Raised(R, c)
        ELSE IF ~push THEN Returned(c.repo, c.oid)
        ELSE LET p == push_ref(c.repo, has_credentials, net_ok)
             IN  IF IsError(p) THEN Raised(c.repo, p)
                 ELSE Returned(p.repo, c.oid)

AddObjects(R, objs) == [R EXCEPT !.odb = @ \cup objs]

\* get_files as a variant would have it: the listing is taken of a tree
\* that the call writes
get_files_writing(R) ==
    LET commit == _get_commit(R)
    IN  IF IsError(commit) THEN Raised(R, commit)
        ELSE Returned(AddObjects(R, {EmptyTree}),
                      _tree_to_dict(CommitTree(R, commit.id)))

\* Remote.get_files
get_files(R) ==
    LET commit == _get_commit(R)
    IN  IF IsError(commit) THEN Raised(R, commit)
        ELSE Returned(R, _tree_to_dict(CommitTree(R, commit.id)))

\* Remote.get_file_content
get_file_content(R, path) ==
    LET commit == _get_commit(R)
        parts == PathParts(path)
    IN  IF IsError(commit) THEN Raised(R, commit)
        ELSE IF parts = << >> THEN Raised(R, Raise("KeyError", "Empty path"))
        ELSE LET parent_tree == IF Len(parts) > 1
                                THEN _walk_to_tree(CommitTree(R, commit.id),
                                                   SubSeq(parts, 1, Len(parts) - 1))
                                ELSE CommitTree(R, commit.id)
                 name == parts[Len(parts)]
             IN  IF IsError(parent_tree) THEN Raised(R, parent_tree)
                 ELSE IF name \notin DOMAIN parent_tree.entries
                 THEN Raised(R, Raise("KeyError", "File not found"))
                 ELSE IF parent_tree.entries[name].filemode = GITMODE_TREE
                 THEN Raised(R, Raise("KeyError", "Path is a directory"))
                 ELSE Returned(R, decode_utf8_replace(parent_tree.entries[name].id.data))

\* Remote.update_file_content
update_file_content(R, path, new_content, message, push, net_ok) ==
    LET commit == _get_commit(R)
    IN  IF IsError(commit) THEN Raised(R, commit)
        ELSE IF ~Encodable(new_content)
        THEN Raised(R, Raise("UnicodeEncodeError", "surrogates not allowed"))
        ELSE LET blob_oid == Blob(encode_utf8(new_content))
                 R1 == AddObjects(R, {blob_oid})
                 w == _write_tree_with_update(CommitTree(R, commit.id), PathParts(path),
                                              blob_oid, GITMODE_FILE)
             IN  IF IsError(w) THEN Raised(R1, w)
                 ELSE CommitAndPush(AddObjects(R1, w.objs),
                                    CommitMessage(message, "Update", path),
                                    w.oid, commit.id, push, TRUE, net_ok)

\* the body of the try in create_file and rename_file: walk to the parent
\* of parts and raise when the name is there and fail_if_exists is set
ExistenceCheck(base_tree, parts, fail_if_exists, msg) ==
    LET parent == IF Len(parts) = 1 THEN base_tree
                  ELSE _walk_to_tree(base_tree, SubSeq(parts, 1, Len(parts) - 1))
    IN  IF IsError(parent) THEN parent
        ELSE IF parts[Len(parts)] \in DOMAIN parent.entries /\ fail_if_exists
        THEN Raise("KeyError", msg)
        ELSE [type |-> "ok"]

\* try: <ExistenceCheck> except KeyError: pass
TryExistenceCheck(base_tree, parts, fail_if_exists, msg) ==
    LET r == ExistenceCheck(base_tree, parts, fail_if_exists, msg)
    IN  IF IsError(r) /\ r.exc = "KeyError" THEN [type |-> "ok"] ELSE r

\* create_file as a slip would have it: the blob is created before the path
\* is looked at, as update_file_content does
create_file_blob_first(R, path, content, message, push, fail_if_exists, net_ok) ==
    LET commit == _get_commit(R)
        parts == PathParts(path)
    IN  IF IsError(commit) THEN Raised(R, commit)
        ELSE IF ~Encodable(content)
        THEN Raised(R, Raise("UnicodeEncodeError", "surrogates not allowed"))
        ELSE LET blob_oid == Blob(encode_utf8(content))
                 R1 == AddObjects(R, {blob_oid})
             IN  IF parts = << >> THEN Raised(R1, Raise("KeyError", "Empty path"))
                 ELSE LET w == _write_tree_with_update(CommitTree(R, commit.id), parts,
                                                       blob_oid, GITMODE_FILE)
                      IN  CommitAndPush(AddObjects(R1, w.objs),
                                        CommitMessage(message, "Create", path),
                                        w.oid, commit.id, push, FALSE, net_ok)

\* Remote.create_file
create_file(R, path, content, message, push, fail_if_exists, net_ok) ==
    LET commit == _get_commit(R)
        parts == PathParts(path)
    IN  IF IsError(commit) THEN Raised(R, commit)
        ELSE IF parts = << >> THEN Raised(R, Raise("KeyError", "Empty path"))
        ELSE LET chk == TryExistenceCheck(CommitTree(R, commit.id), parts,
                                          fail_if_exists, "File already exists")
             IN  IF IsError(chk) THEN Raised(R, chk)
                 ELSE IF ~Encodable(content)
                 THEN Raised(R, Raise("UnicodeEncodeError", "surrogates not allowed"))
                 ELSE LET blob_oid == Blob(encode_utf8(content))
                          w == _write_tree_with_update(CommitTree(R, commit.id), parts,
                                                       blob_oid, GITMODE_FILE)
                      IN  CommitAndPush(AddObjects(R, {blob_oid} \cup w.objs),
                                        CommitMessage(message, "Create", path),
                                        w.oid, commit.id, push, FALSE, net_ok)

\* new_tree_oid_or_none, or the empty tree written in its place
OrEmptyTree(d) ==
    IF d.oid = None THEN Written(EmptyTree, d.objs \cup {EmptyTree}) ELSE d

\* delete_file as a variant would have it: deleting what is not there is a
\* commit of the tree as it is
delete_file_idempotent(R, path, message, push, net_ok) ==
    LET commit == _get_commit(R)
        parts == PathParts(path)
    IN  IF IsError(commit) THEN Raised(R, commit)
        ELSE IF parts = << >> THEN Raised(R, Raise("KeyError", "Empty path"))
        ELSE LET d == _write_tree_with_delete(CommitTree(R, commit.id), parts)
             IN  IF IsError(d) /\ d.msg = "Path not found"
                 THEN CommitAndPush(R, CommitMessage(message, "Delete", path),
                                    CommitTree(R, commit.id), commit.id, push, FALSE,
                                    net_ok)
                 ELSE IF IsError(d) THEN Raised(R, d)
                 ELSE CommitAndPush(AddObjects(R, OrEmptyTree(d).objs),
                                    CommitMessage(message, "Delete", path),
                                    OrEmptyTree(d).oid, commit.id, push, FALSE, net_ok)

\* Remote.delete_file
delete_file(R, path, message, push, net_ok) ==
    LET commit == _get_commit(R)
        parts == PathParts(path)
    IN  IF IsError(commit) THEN Raised(R, commit)
        ELSE IF parts = << >> THEN Raised(R, Raise("KeyError", "Empty path"))
        ELSE LET d == _write_tree_with_delete(CommitTree(R, commit.id), parts)
             IN  IF IsError(d) THEN Raised(R, d)
                 ELSE CommitAndPush(AddObjects(R, OrEmptyTree(d).objs),
                                    CommitMessage(message, "Delete", path),
                                    OrEmptyTree(d).oid, commit.id, push, FALSE, net_ok)

\* SourceEntry as a slip would have it: the mode of the source is not kept
SourceEntryRegular(base_tree, src_parts) ==
    LET src_parent == IF Len(src_parts) > 1
                      THEN _walk_to_tree(base_tree, SubSeq(src_parts, 1, Len(src_parts) - 1))
                      ELSE base_tree
        name == src_parts[Len(src_parts)]
    IN  IF IsError(src_parent) THEN src_parent
        ELSE IF name \notin DOMAIN src_parent.entries
        THEN Raise("KeyError", "Source not found")
        ELSE IF src_parent.entries[name].filemode = GITMODE_TREE
        THEN Raise("KeyError", "Source is a directory (not supported)")
        ELSE [type |-> "ok", entry |-> Entry(src_parent.entries[name].id, GITMODE_FILE)]

\* SourceEntry as a slip would have it: a source whose parent does not
\* resolve is reported as not found, whatever stood in the way
SourceEntryNotFound(base_tree, src_parts) ==
    LET src_parent == IF Len(src_parts) > 1
                      THEN _walk_to_tree(base_tree, SubSeq(src_parts, 1, Len(src_parts) - 1))
                      ELSE base_tree
        name == src_parts[Len(src_parts)]
    IN  IF IsError(src_parent) THEN Raise("KeyError", "Source not found")
        ELSE IF name \notin DOMAIN src_parent.entries
        THEN Raise("KeyError", "Source not found")
        ELSE IF src_parent.entries[name].filemode = GITMODE_TREE
        THEN Raise("KeyError", "Source is a directory (not supported)")
        ELSE [type |-> "ok", entry |-> src_parent.entries[name]]

\* the source entry of rename_file: must be a file
SourceEntry(base_tree, src_parts) ==
    LET src_parent == IF Len(src_parts) > 1
                      THEN _walk_to_tree(base_tree, SubSeq(src_parts, 1, Len(src_parts) - 1))
                      ELSE base_tree
        name == src_parts[Len(src_parts)]
    IN  IF IsError(src_parent) THEN src_parent
        ELSE IF name \notin DOMAIN src_parent.entries
        THEN Raise("KeyError", "Source not found")
        ELSE IF src_parent.entries[name].filemode = GITMODE_TREE
        THEN Raise("KeyError", "Source is a directory (not supported)")
        ELSE [type |-> "ok", entry |-> src_parent.entries[name]]

\* rename_file as a variant would have it: insert at the destination first,
\* then remove the source from the tree that results
rename_file_insert_first(R, src_path, dst_path, message, push, fail_if_exists, net_ok) ==
    IF src_path = << >> \/ dst_path = << >>
    THEN Raised(R, Raise("KeyError", "src_path and dst_path are required"))
    ELSE
    LET commit == _get_commit(R)
        src_parts == PathParts(src_path)
        dst_parts == PathParts(dst_path)
    IN  IF IsError(commit) THEN Raised(R, commit)
        ELSE IF src_parts = << >> \/ dst_parts = << >>
        THEN Raised(R, Raise("KeyError", "Invalid path"))
        ELSE
        LET base_tree == CommitTree(R, commit.id)
            src == SourceEntry(base_tree, src_parts)
        IN  IF IsError(src) THEN Raised(R, src)
            ELSE
            LET w == _write_tree_with_update(base_tree, dst_parts, src.entry.id,
                                             src.entry.filemode)
                d == _write_tree_with_delete(w.oid, src_parts)
            IN  IF IsError(d) THEN Raised(R, d)
                ELSE CommitAndPush(AddObjects(R, OrEmptyTree(d).objs \cup w.objs),
                                   CommitMessage(message, "Rename", <<src_path, dst_path>>),
                                   OrEmptyTree(d).oid, commit.id, push, FALSE, net_ok)

\* Remote.rename_file
rename_file(R, src_path, dst_path, message, push, fail_if_exists, net_ok) ==
    IF src_path = << >> \/ dst_path = << >>
    THEN Raised(R, Raise("KeyError", "src_path and dst_path are required"))
    ELSE
    LET commit == _get_commit(R)
        src_parts == PathParts(src_path)
        dst_parts == PathParts(dst_path)
    IN  IF IsError(commit) THEN Raised(R, commit)
        ELSE IF src_parts = << >> \/ dst_parts = << >>
        THEN Raised(R, Raise("KeyError", "Invalid path"))
        ELSE
        LET base_tree == CommitTree(R, commit.id)
            src == SourceEntry(base_tree, src_parts)
        IN  IF IsError(src) THEN Raised(R, src)
            ELSE
            LET chk == TryExistenceCheck(base_tree, dst_parts, fail_if_exists,
                                         "Destination already exists")
            IN  IF IsError(chk) THEN Raised(R, chk)
                ELSE
                LET d == _write_tree_with_delete(base_tree, src_parts)
                IN  IF IsError(d) THEN Raised(R, d)
                    ELSE
                    LET w == _write_tree_with_update(OrEmptyTree(d).oid, dst_parts,
                                                     src.entry.id, src.entry.filemode)
                    IN  CommitAndPush(AddObjects(R, OrEmptyTree(d).objs \cup w.objs),
                                      CommitMessage(message, "Rename", <<src_path, dst_path>>),
                                      w.oid, commit.id, push, FALSE, net_ok)

(***************************************************************************)
(* The trees an origin may hold when the mirror is opened.                 *)
(***************************************************************************)
N_a == <<"a">>
N_b == <<"b">>
N_c == <<"c">>

B_x == Blob(<<120>>)             \* "x"
B_sh == Blob(<<35, 33>>)         \* "#!"
B_bad == Blob(<<104, 255>>)      \* not UTF-8

File(blob) == Entry(blob, GITMODE_FILE)
Exec(blob) == Entry(blob, GITMODE_EXEC)
Dir(tree) == Entry(tree, GITMODE_TREE)

\* {a: {b: {c}}}
T_nested == Tree((N_a :> Dir(Tree(N_b :> Dir(Tree(N_c :> File(B_x)))))))

\* {a (executable), b: {c}}
T_mixed == Tree((N_a :> Exec(B_sh)) @@ (N_b :> Dir(Tree(N_c :> File(B_x)))))

\* {a: {b, c}, b}
T_sibs == Tree((N_a :> Dir(Tree((N_b :> File(B_bad)) @@ (N_c :> Exec(B_sh)))))
               @@ (N_b :> File(B_x)))

InitTrees == {EmptyTree, T_nested, T_mixed, T_sibs}

\* a tree and every object reachable from it
RECURSIVE ObjectsOf(_)
ObjectsOf(tree) ==
    {tree} \cup UNION {IF tree.entries[n].filemode = GITMODE_TREE
                       THEN ObjectsOf(tree.entries[n].id)
                       ELSE {tree.entries[n].id} : n \in DOMAIN tree.entries}

(***************************************************************************)
(* The callers that share one cached Remote (requests with the same access *)
(* token), and what a caller holds while it is inside a call.              *)
(***************************************************************************)
Callers == {"w1", "w2"}

\* the access tokens of ACCESS_TOKEN_MAP; the entry of "t0" has no remote_uri
Tokens == {"t0", "t1", "t2"}

\* singletons: _REMOTE_SINGLETONS; built: the Remote objects constructed;
\* created, fetched, opened: per token, the mirrors made by init_repository,
\* the fetches that completed and the constructions that returned; served:
\* who obtained which Remote; req: the last request and the cache before it
IdleRead == [pc |-> "idle", op |-> "", path |-> << >>, first |-> 0, last |-> 0,
             todo |-> << >>, out |-> {}, cur |-> None, parts |-> << >>,
             at |-> << >>, exc |-> "", msg |-> "", ret |-> None, count |-> 0]

NoCache == [singletons |-> [t \in Tokens |-> None], built |-> 0,
            created |-> [t \in Tokens |-> 0],
            opened |-> [t \in Tokens |-> 0],
            fetched |-> [t \in Tokens |-> 0], served |-> {}, req |-> None]

IdleCall == [pc |-> "idle", path |-> << >>, content |-> << >>, push |-> FALSE,
             net_ok |-> TRUE, tip |-> 0, tree |-> None, at |-> 0, ret |-> 0,
             began |-> 0]

(***************************************************************************)
(* The state machine: one Remote, its callers one at a time.               *)
(***************************************************************************)
Repo == [odb |-> odb, commits |-> commits, ref |-> ref, origin |-> origin,
         needsCred |-> needsCred]

NoCall == [op |-> "open", path |-> << >>, dst |-> << >>, content |-> << >>,
           fail_if_exists |-> FALSE, push |-> FALSE, net_ok |-> TRUE,
           fetched |-> "tip",
           exc |-> "", msg |-> "", ret |-> None, pre |-> None]

\* Remote.__init__: the mirror after the shallow fetch of the ref
Init ==
    \E t \in InitTrees :
        /\ odb = ObjectsOf(t)
        /\ commits = <<[tree |-> t, parents |-> << >>, message |-> <<"tip">>,
                        author |-> "origin"]>>
        /\ ref = 1
        /\ origin = 1
        /\ needsCred = FALSE
        /\ last = NoCall
        /\ calls = [w \in Callers |-> IdleCall]
        /\ done = << >>
        /\ cache = NoCache
        /\ reads = IdleRead

\* the mirror becomes what the call left; last records the call
Apply(call, out) ==
    /\ odb' = out.repo.odb
    /\ commits' = out.repo.commits
    /\ ref' = out.repo.ref
    /\ origin' = out.repo.origin
    /\ UNCHANGED <<needsCred, calls, done, cache, reads>>
    /\ last' = [call EXCEPT !.exc = out.exc, !.msg = out.msg, !.ret = out.ret,
                            !.pre = Repo]

MessageArgs == {""}

\* A call that left the mirror as it was (a read, a call that raised before
\* writing) leads to a state that differs from the one before in `last`
\* alone, and no call reads `last`: the next call is explored from the state
\* before, which removes no reachable state.
Effective == last.pre = None \/ Repo # last.pre

\* the cap on the commits of a mirror
Room == Len(commits) < MaxCommits /\ Effective

GetFiles ==
    /\ Effective
    /\ Apply([NoCall EXCEPT !.op = "get_files"], get_files(Repo))

GetFileContent ==
    /\ Effective
    /\ \E path \in PathArgs :
        Apply([NoCall EXCEPT !.op = "get_file_content", !.path = path],
              get_file_content(Repo, path))

UpdateFileContent ==
    /\ Room
    /\ \E path \in PathArgs, content \in ContentArgs, message \in MessageArgs,
          p \in PushArgs :
        Apply([NoCall EXCEPT !.op = "update_file_content", !.path = path,
                             !.content = content, !.push = p.push],
              update_file_content(Repo, path, content, message, p.push, p.net_ok))

CreateFile ==
    /\ Room
    /\ \E path \in PathArgs, content \in ContentArgs, message \in MessageArgs,
          p \in PushArgs, fail_if_exists \in BOOLEAN :
        Apply([NoCall EXCEPT !.op = "create_file", !.path = path, !.content = content,
                             !.push = p.push, !.fail_if_exists = fail_if_exists],
              create_file(Repo, path, content, message, p.push, fail_if_exists,
                          p.net_ok))

DeleteFile ==
    /\ Room
    /\ \E path \in PathArgs, message \in MessageArgs, p \in PushArgs :
        Apply([NoCall EXCEPT !.op = "delete_file", !.path = path, !.push = p.push],
              delete_file(Repo, path, message, p.push, p.net_ok))

RenameFile ==
    /\ Room
    /\ \E src_path \in RenameArgs, dst_path \in RenameArgs, message \in MessageArgs,
          p \in PushArgs, fail_if_exists \in BOOLEAN :
        Apply([NoCall EXCEPT !.op = "rename_file", !.path = src_path, !.dst = dst_path,
                             !.push = p.push, !.fail_if_exists = fail_if_exists],
              rename_file(Repo, src_path, dst_path, message, p.push, fail_if_exists,
                          p.net_ok))

Next ==
    \/ GetFiles
    \/ GetFileContent
    \/ CreateFile
    \/ DeleteFile
    \/ RenameFile
    \/ UpdateFileContent

Spec == Init /\ [][Next]_vars

(***************************************************************************)
(* The handlers of backend/endpoints.py call a Remote whose                *)
(* update_file_content takes the policies fail_if_exists and               *)
(* fail_if_not_exists.  That Remote is modelled from the design's Tree     *)
(* Mutator: apply(tree_or_absent, segments, Insert(...)).                  *)
(***************************************************************************)
RECURSIVE apply_insert(_, _, _, _, _, _)
apply_insert(tree_or_absent, segments, content_id, mode, fail_if_exists, fail_if_missing) ==
    LET name == Head(segments)
        entries == TreeBuilder(tree_or_absent)
        present == name \in DOMAIN entries
    IN  IF Len(segments) = 1
        THEN IF present /\ fail_if_exists THEN Raise("KeyError", "Conflict")
             ELSE IF ~present /\ fail_if_missing THEN Raise("KeyError", "NotFound")
             ELSE LET t == Tree(BuilderInsert(entries, name, content_id, mode))
                  IN  Written(t, {t})
        ELSE IF present /\ entries[name].filemode # GITMODE_TREE
        THEN Raise("KeyError", "NotADirectory")
        ELSE LET sub == apply_insert(IF present THEN entries[name].id ELSE None,
                                     Tail(segments), content_id, mode, fail_if_exists,
                                     fail_if_missing)
             IN  IF IsError(sub) THEN sub
                 ELSE LET t == Tree(BuilderInsert(entries, name, sub.oid, GITMODE_TREE))
                      IN  Written(t, sub.objs \cup {t})

\* the backend's Remote.update_file_content(path, content, message, push,
\* fail_if_exists, fail_if_not_exists): nothing changes unless the insert
\* applies; then one Version, the Pointer on it, and the push
policy_update_file_content(R, path, content, message, push, fail_if_exists, fail_if_not_exists, net_ok) ==
    LET commit == _get_commit(R)
        segments == PathParts(path)
    IN  IF IsError(commit) THEN Raised(R, commit)
        ELSE IF segments = << >> THEN Raised(R, Raise("KeyError", "InvalidPath"))
        ELSE IF ~Encodable(content)
        THEN Raised(R, Raise("UnicodeEncodeError", "surrogates not allowed"))
        ELSE LET blob_oid == Blob(encode_utf8(content))
                 w == apply_insert(CommitTree(R, commit.id), segments, blob_oid,
                                   GITMODE_FILE, fail_if_exists, fail_if_not_exists)
             IN  IF IsError(w) THEN Raised(R, w)
                 ELSE CommitAndPush(AddObjects(R, {blob_oid} \cup w.objs),
                                    CommitMessage(message, "Update", path),
                                    w.oid, commit.id, push, TRUE, net_ok)

\* the response of a handler: the status for KeyError, 500 for any other
\* exception, 200 with the new commit
Response(out, key_error_status) ==
    [out EXCEPT !.ret = [status |-> IF out.exc = "" THEN 200
                                    ELSE IF out.exc = "KeyError" THEN key_error_status
                                    ELSE 500,
                         commit |-> out.ret]]

BadRequest(R) == [repo |-> R, exc |-> "", msg |-> "",
                  ret |-> [status |-> 400, commit |-> None]]

\* _handle_update_file_content as a slip would have it: no policy is asked
_handle_update_any(R, path, new_content, message, net_ok) ==
    IF path = << >> THEN BadRequest(R)
    ELSE Response(policy_update_file_content(R, path, new_content, message, TRUE,
                                             FALSE, FALSE, net_ok), 400)

\* _handle_update_file_content: the body carries path and content
_handle_update_file_content(R, path, new_content, message, net_ok) ==
    IF path = << >> THEN BadRequest(R)
    ELSE Response(policy_update_file_content(R, path, new_content, message, TRUE,
                                             FALSE, TRUE, net_ok), 400)

\* _handle_create_file
_handle_create_file(R, path, content, message, fail_if_exists, net_ok) ==
    IF path = << >> THEN BadRequest(R)
    ELSE Response(policy_update_file_content(R, path, content, message, TRUE,
                                             fail_if_exists, FALSE, net_ok), 409)

HandlerPathArgs == PathArgs \cup {P_empty}

HandleUpdateFileContent ==
    /\ Room
    /\ \E path \in HandlerPathArgs, content \in ContentArgs, message \in MessageArgs,
          net_ok \in BOOLEAN :
        Apply([NoCall EXCEPT !.op = "_handle_update_file_content", !.path = path,
                             !.content = content, !.push = TRUE],
              _handle_update_file_content(Repo, path, content, message, net_ok))

HandleCreateFile ==
    /\ Room
    /\ \E path \in HandlerPathArgs, content \in ContentArgs, message \in MessageArgs,
          fail_if_exists \in BOOLEAN, net_ok \in BOOLEAN :
        Apply([NoCall EXCEPT !.op = "_handle_create_file", !.path = path,
                             !.content = content, !.push = TRUE,
                             !.fail_if_exists = fail_if_exists],
              _handle_create_file(Repo, path, content, message, fail_if_exists,
                                  net_ok))

NextBackend ==
    \/ HandleUpdateFileContent
    \/ HandleCreateFile

SpecBackend == Init /\ [][NextBackend]_vars

(***************************************************************************)
(* A Session followed from its opening: Remote(uri, ref, token) against an *)
(* origin that may be out of reach, may not hold the ref, and may take a   *)
(* push only with the credential; then the calls made on it.               *)
(***************************************************************************)
\* what remote.fetch([self.ref], depth=1) left in the new repository
FetchOutcomes == {"unavailable", "nothing", "fetch_head_only", "tip"}

OpenTrees == {EmptyTree, T_mixed}

SessionPaths == {P_a, P_ab}

Closed == [NoCall EXCEPT !.op = "closed"]

NoMirror == [odb |-> {}, commits |-> << >>, ref |-> 0, origin |-> 0,
             needsCred |-> needsCred]

\* Remote._ensure_tracking_ref: refs is the target of self.ref, of the
\* remote-tracking ref and of FETCH_HEAD (0: absent)
_ensure_tracking_ref(refs) ==
    IF refs.local # 0 THEN [type |-> "ok", local |-> refs.local]
    ELSE IF refs.tracking = 0
    THEN IF refs.fetch_head = 0
         THEN Raise("KeyError", "reference not found")
         ELSE [type |-> "ok", local |-> refs.fetch_head]
    ELSE [type |-> "ok", local |-> refs.tracking]

\* Remote.__init__: init_repository, fetch, _ensure_tracking_ref
Remote_init(tree, fetched) ==
    IF fetched = "unavailable"
    THEN Raised(NoMirror, Raise("GitError", "fetch failed"))
    ELSE LET got == fetched # "nothing"
             e == _ensure_tracking_ref(
                      [local |-> 0,
                       tracking |-> IF fetched = "tip" THEN 1 ELSE 0,
                       fetch_head |-> IF got THEN 1 ELSE 0])
         IN  IF IsError(e) THEN Raised(NoMirror, e)
             ELSE Returned([odb |-> IF got THEN ObjectsOf(tree) ELSE {},
                            commits |-> IF got
                                        THEN <<[tree |-> tree, parents |-> << >>,
                                                message |-> <<"tip">>,
                                                author |-> "origin"]>>
                                        ELSE << >>,
                            ref |-> e.local,
                            origin |-> IF got THEN 1 ELSE 0,
                            needsCred |-> needsCred], None)

InitClosed ==
    /\ odb = {}
    /\ commits = << >>
    /\ ref = 0
    /\ origin = 0
    /\ needsCred \in BOOLEAN
    /\ last = Closed
    /\ calls = [w \in Callers |-> IdleCall]
    /\ done = << >>
    /\ cache = NoCache
    /\ reads = IdleRead

\* the Session is open and may take one more write
Opened == last.op # "closed" /\ Effective

MayWrite == Opened /\ Len(commits) < 1 + MaxWrites

Open ==
    /\ last.op = "closed"
    /\ \E tree \in OpenTrees, fetched \in FetchOutcomes :
          Apply([NoCall EXCEPT !.op = "__init__", !.fetched = fetched],
                Remote_init(tree, fetched))

SessionGetFiles ==
    /\ Opened
    /\ Apply([NoCall EXCEPT !.op = "get_files"], get_files(Repo))

SessionUpdateFileContent ==
    /\ MayWrite
    /\ \E path \in SessionPaths, p \in PushArgs :
          Apply([NoCall EXCEPT !.op = "update_file_content", !.path = path,
                               !.content = C_x, !.push = p.push, !.net_ok = p.net_ok],
                update_file_content(Repo, path, C_x, "", p.push, p.net_ok))

SessionCreateFile ==
    /\ MayWrite
    /\ \E path \in SessionPaths, p \in PushArgs :
          Apply([NoCall EXCEPT !.op = "create_file", !.path = path,
                               !.content = C_x, !.push = p.push, !.net_ok = p.net_ok],
                create_file(Repo, path, C_x, "", p.push, FALSE, p.net_ok))

SessionDeleteFile ==
    /\ MayWrite
    /\ \E path \in SessionPaths, p \in PushArgs :
          Apply([NoCall EXCEPT !.op = "delete_file", !.path = path,
                               !.push = p.push, !.net_ok = p.net_ok],
                delete_file(Repo, path, "", p.push, p.net_ok))

SessionRenameFile ==
    /\ MayWrite
    /\ \E src_path \in SessionPaths, dst_path \in SessionPaths, p \in PushArgs :
          Apply([NoCall EXCEPT !.op = "rename_file", !.path = src_path,
                               !.dst = dst_path, !.push = p.push,
                               !.net_ok = p.net_ok],
                rename_file(Repo, src_path, dst_path, "", p.push, FALSE, p.net_ok))

NextSession ==
    \/ Open
    \/ SessionGetFiles
    \/ SessionUpdateFileContent
    \/ SessionCreateFile
    \/ SessionDeleteFile
    \/ SessionRenameFile

SpecSession == InitClosed /\ [][NextSession]_vars

(***************************************************************************)
(* A Session whose origin is also pushed to by other Sessions, each from a *)
(* mirror of its own.  The Versions they publish are not in this mirror:   *)
(* they are the negative numbers, -1 the first.  Their pushes carry no '+' *)
(* either, so the origin only moves to a descendant of what it held.       *)
(***************************************************************************)
OriginAdvances ==
    /\ Opened
    /\ origin # 0
    /\ origin > -MaxForeign
    /\ Apply([NoCall EXCEPT !.op = "origin_advances"],
             Returned([Repo EXCEPT !.origin = IF origin > 0 THEN -1 ELSE origin - 1],
                      None))

NextDiverged ==
    \/ Open
    \/ SessionGetFiles
    \/ SessionUpdateFileContent
    \/ SessionCreateFile
    \/ SessionDeleteFile
    \/ SessionRenameFile
    \/ OriginAdvances

SpecDiverged == InitClosed /\ [][NextDiverged]_vars

(***************************************************************************)
(* The cache of Sessions of backend/endpoints.py: requests, one after the  *)
(* other, each with an access token, served by the Remote cached for the   *)
(* token.  The Remote class the backend constructs is opened as the design *)
(* describes open(uri, ref, credential).                                   *)
(***************************************************************************)
HasUri(token) == token # "t0"

\* the key of the old handlers' _REMOTE_SINGLETON: one Remote for all tokens
KeySingle(token) == "t1"

\* the key of _REMOTE_SINGLETONS: token_info["token"]
Key(token) == token

\* _get_remote storing an entry before the constructor has returned
_get_remote_stored_first(C, token, tree, fetched) ==
    IF ~HasUri(token)
    THEN [exc |-> "RuntimeError", cache |-> C]
    ELSE IF C.singletons[Key(token)] = None
    THEN LET o == Remote_init(tree, fetched)
         IN  [exc |-> o.exc,
              cache |-> [C EXCEPT !.created[token] = @ + 1,
                                  !.fetched[token] =
                                      IF fetched = "unavailable" THEN @ ELSE @ + 1,
                                  !.singletons[Key(token)] =
                                      [id |-> C.built + 1, repo |-> o.repo],
                                  !.built = @ + 1,
                                  !.opened[token] = @ + 1]]
    ELSE [exc |-> "", cache |-> C]

\* _get_remote: the cached Remote of the token, constructed if there is
\* none; a constructor that raises leaves the cache without an entry
_get_remote(C, token, tree, fetched) ==
    IF ~HasUri(token)
    THEN [exc |-> "RuntimeError", cache |-> C]
    ELSE IF C.singletons[Key(token)] = None
    THEN LET o == Remote_init(tree, fetched)
             made == [C EXCEPT !.created[token] = @ + 1,
                               !.fetched[token] =
                                   IF fetched = "unavailable" THEN @ ELSE @ + 1]
         IN  IF o.exc # "" THEN [exc |-> o.exc, cache |-> made]
             ELSE [exc |-> "",
                   cache |-> [made EXCEPT
                                !.singletons[Key(token)] =
                                    [id |-> C.built + 1, repo |-> o.repo],
                                !.built = @ + 1,
                                !.opened[token] = @ + 1]]
    ELSE [exc |-> "", cache |-> C]

\* what the origin of the token answers to the fetch of a construction (a
\* request served from the cache makes none)
Opens(token) ==
    IF HasUri(token) /\ cache.singletons[Key(token)] = None
    THEN OpenTrees \X FetchOutcomes
    ELSE {<<EmptyTree, "tip">>}

\* the request may run: the mirrors made for one token are counted to MaxOpens
MayOpen(token) ==
    cache.singletons[Key(token)] = None => cache.created[token] < MaxOpens

\* the request of token was answered with status by the Remote it obtained
Served(C, token, status, repo) ==
    [C EXCEPT !.singletons[Key(token)].repo = repo,
              !.served = @ \cup {<<token, C.singletons[Key(token)].id>>},
              !.req = [token |-> token, id |-> C.singletons[Key(token)].id,
                       status |-> status, before |-> cache.singletons]]

\* the handler's catch-all: an exception of _get_remote is answered 500
Unserved(C, token) ==
    [C EXCEPT !.served = @ \cup {<<token, 0>>},
              !.req = [token |-> token, id |-> 0, status |-> 500,
                       before |-> cache.singletons]]

\* _handle_get_files
_handle_get_files ==
    /\ \E token \in {t \in Tokens : MayOpen(t)} : \E o \in Opens(token) :
          LET g == _get_remote(cache, token, o[1], o[2])
          IN  IF g.exc # "" THEN cache' = Unserved(g.cache, token)
              ELSE LET r == g.cache.singletons[Key(token)].repo
                       out == get_files(r)
                   IN  cache' = Served(g.cache, token,
                                       IF out.exc = "" THEN 200 ELSE 500, out.repo)
    /\ UNCHANGED <<odb, commits, ref, origin, needsCred, last, calls, done, reads>>

\* _handle_delete_file
_handle_delete_file ==
    /\ \E token \in {t \in Tokens : MayOpen(t)}, path \in SessionPaths,
          net_ok \in BOOLEAN : \E o \in Opens(token) :
          LET g == _get_remote(cache, token, o[1], o[2])
          IN  IF g.exc # "" THEN cache' = Unserved(g.cache, token)
              ELSE LET r == g.cache.singletons[Key(token)].repo
                       out == delete_file(r, path, "", TRUE, net_ok)
                   IN  /\ Len(r.commits) < MaxCommits
                       /\ cache' = Served(g.cache, token,
                                          IF out.exc = "" THEN 200
                                          ELSE IF out.exc = "KeyError" THEN 404
                                          ELSE 500, out.repo)
    /\ UNCHANGED <<odb, commits, ref, origin, needsCred, last, calls, done, reads>>

NextCache ==
    \/ _handle_get_files
    \/ _handle_delete_file

SpecCache == InitClosed /\ [][NextCache]_vars

(***************************************************************************)
(* Callers inside update_file_content of one Remote at the same time.  The *)
(* class holds no lock, so a call is the sequence of its statements: read  *)
(* the tip, create the blob and write the trees, create the commit on the  *)
(* reference, push, return.  Other callers may run between the steps.      *)
(***************************************************************************)
\* the paths and the text a caller writes: each caller its own text
CallerPaths == {P_a, P_ab, P_ac}

ContentOf(w) == IF w = "w1" THEN C_x ELSE C_euro

\* calls begun so far
Started == Len(done) + Cardinality({w \in Callers : calls[w].pc # "idle"})

SetRepo(R) ==
    /\ odb' = R.odb
    /\ commits' = R.commits
    /\ ref' = R.ref
    /\ origin' = R.origin
    /\ UNCHANGED <<needsCred, cache, reads>>

\* the call of w ends: it raised exc, or returned ret
End(w, exc, msg, at, ret) ==
    /\ done' = Append(done, [caller |-> w, path |-> calls[w].path,
                             content |-> calls[w].content, push |-> calls[w].push,
                             net_ok |-> calls[w].net_ok,
                             tip |-> calls[w].tip, tree |-> calls[w].tree,
                             began |-> calls[w].began, at |-> at,
                             exc |-> exc, msg |-> msg, ret |-> ret])
    /\ calls' = [calls EXCEPT ![w] = IdleCall]

\* commit = self._get_commit(); base_tree = commit.tree
UfcReadTip(w) ==
    /\ calls[w].pc = "idle"
    /\ Started < MaxCalls
    /\ \E path \in CallerPaths, p \in PushArgs :
          calls' = [calls EXCEPT ![w] =
                       [IdleCall EXCEPT !.pc = "write_tree", !.path = path,
                                        !.content = ContentOf(w), !.push = p.push,
                                        !.net_ok = p.net_ok,
                                        !.tip = _get_commit(Repo).id,
                                        !.began = Len(done)]]
    /\ UNCHANGED <<odb, commits, ref, origin, needsCred, last, done, cache, reads>>

\* UfcWriteTree as a slip would have it: the tree is built on the tree that
\* was fetched when the mirror was opened
UfcWriteTreeOnFetched(w) ==
    /\ calls[w].pc = "write_tree"
    /\ LET blob_oid == Blob(encode_utf8(calls[w].content))
           t == _write_tree_with_update(commits[1].tree, PathParts(calls[w].path),
                                        blob_oid, GITMODE_FILE)
       IN  /\ SetRepo(AddObjects(Repo, {blob_oid} \cup t.objs))
           /\ calls' = [calls EXCEPT ![w].pc = "create_commit", ![w].tree = t.oid]
    /\ UNCHANGED <<last, done>>

\* blob_oid = create_blob(...); new_tree_oid = _write_tree_with_update(...)
UfcWriteTree(w) ==
    /\ calls[w].pc = "write_tree"
    /\ LET blob_oid == Blob(encode_utf8(calls[w].content))
           t == _write_tree_with_update(commits[calls[w].tip].tree,
                                        PathParts(calls[w].path), blob_oid,
                                        GITMODE_FILE)
       IN  /\ SetRepo(AddObjects(Repo, {blob_oid} \cup t.objs))
           /\ calls' = [calls EXCEPT ![w].pc = "create_commit", ![w].tree = t.oid]
    /\ UNCHANGED <<last, done>>

\* UfcCreateCommit as a variant would have it: the parent is the tip at the
\* time of the commit, not the tip that was read
UfcCreateCommitOnCurrent(w) ==
    /\ calls[w].pc = "create_commit"
    /\ LET c == create_commit(Repo, CommitMessage("", "Update", calls[w].path),
                              calls[w].tree, ref)
       IN  IF IsError(c)
           THEN /\ End(w, c.exc, c.msg, ref, 0)
                /\ UNCHANGED <<odb, commits, ref, origin, needsCred, cache, reads>>
           ELSE /\ SetRepo(c.repo)
                /\ IF calls[w].push
                   THEN /\ calls' = [calls EXCEPT ![w].pc = "push", ![w].at = ref,
                                                  ![w].ret = c.oid]
                        /\ UNCHANGED done
                   ELSE End(w, "", "", ref, c.oid)
    /\ UNCHANGED last

\* new_commit_oid = self.repo.create_commit(self.ref, ..., [commit.id])
UfcCreateCommit(w) ==
    /\ calls[w].pc = "create_commit"
    /\ LET c == create_commit(Repo, CommitMessage("", "Update", calls[w].path),
                              calls[w].tree, calls[w].tip)
       IN  IF IsError(c)
           THEN /\ End(w, c.exc, c.msg, ref, 0)
                /\ UNCHANGED <<odb, commits, ref, origin, needsCred, cache, reads>>
           ELSE /\ SetRepo(c.repo)
                /\ IF calls[w].push
                   THEN /\ calls' = [calls EXCEPT ![w].pc = "push", ![w].at = ref,
                                                  ![w].ret = c.oid]
                        /\ UNCHANGED done
                   ELSE End(w, "", "", ref, c.oid)
    /\ UNCHANGED last

\* if push: self.remote.push([self.ref], callbacks=self.callbacks); return
UfcPush(w) ==
    /\ calls[w].pc = "push"
    /\ LET p == push_ref(Repo, TRUE, calls[w].net_ok)
       IN  IF IsError(p)
           THEN /\ End(w, p.exc, p.msg, calls[w].at, 0)
                /\ UNCHANGED <<odb, commits, ref, origin, needsCred, cache, reads>>
           ELSE /\ SetRepo(p.repo)
                /\ End(w, "", "", calls[w].at, calls[w].ret)
    /\ UNCHANGED last

NextConcurrent ==
    \E w \in Callers :
        \/ UfcReadTip(w)
        \/ UfcWriteTree(w)
        \/ UfcCreateCommit(w)
        \/ UfcPush(w)

SpecConcurrent == Init /\ [][NextConcurrent]_vars

(***************************************************************************)
(* A get_files or a get_file_content on the Remote a caller writes         *)
(* through, one object lookup at a time.                                   *)
(***************************************************************************)
ReadPaths == {P_a, P_ab}

\* the names of entries, in the order a tree is iterated
NameOrder == <<N_a, N_b, N_c>>

\* a lookup that follows the path from the tree at the ref now, as a reader
\* of a work tree would
LoadTreeByPath(id, at) ==
    LET t == _walk_to_tree(commits[ref].tree, at)
    IN  IF "entries" \in DOMAIN t THEN t ELSE EmptyTree

\* self.repo[entry.id], commit.tree: the object of that id, whatever the
\* ref is at by now
LoadTree(id, at) == id

\* the read ends: it raised, or returned ret
ReadEnds(exc, msg, ret) ==
    reads' = [reads EXCEPT !.pc = "done", !.last = ref, !.exc = exc, !.msg = msg,
                           !.ret = ret, !.todo = << >>, !.cur = None]

\* commit = self._get_commit()
ReadBegin ==
    /\ reads.pc \in {"idle", "done"}
    /\ reads.count < MaxReads
    /\ \/ reads' = [IdleRead EXCEPT
                       !.pc = "list", !.op = "get_files", !.first = ref,
                       !.count = reads.count + 1,
                       !.todo = <<[at |-> << >>, id |-> CommitTree(Repo, _get_commit(Repo).id)]>>]
       \/ \E path \in ReadPaths :
             reads' = [IdleRead EXCEPT
                         !.pc = "walk", !.op = "get_file_content", !.path = path,
                         !.first = ref, !.count = reads.count + 1,
                         !.cur = CommitTree(Repo, _get_commit(Repo).id),
                         !.parts = PathParts(path)]
    /\ UNCHANGED <<odb, commits, ref, origin, needsCred, last, calls, done, cache>>

\* _tree_to_dict, one tree at a time, depth first
ReadList ==
    /\ reads.pc = "list"
    /\ LET h == Head(reads.todo)
           tree == LoadTree(h.id, h.at)
           IsDir(n) == n \in DOMAIN tree.entries /\ tree.entries[n].filemode = GITMODE_TREE
           subs == SelectSeq(NameOrder, IsDir)
           todo == [i \in 1..Len(subs) |->
                       [at |-> Append(h.at, subs[i]), id |-> tree.entries[subs[i]].id]]
                   \o Tail(reads.todo)
           out == reads.out \cup {<<Append(h.at, n), IsDir(n)>> : n \in DOMAIN tree.entries}
       IN  IF tree \notin odb THEN ReadEnds("KeyError", "object not found", None)
           ELSE IF todo = << >> THEN ReadEnds("", "", out)
           ELSE reads' = [reads EXCEPT !.todo = todo, !.out = out]
    /\ UNCHANGED <<odb, commits, ref, origin, needsCred, last, calls, done, cache>>

\* get_file_content after its _get_commit, one tree at a time
ReadWalk ==
    /\ reads.pc = "walk"
    /\ LET tree == LoadTree(reads.cur, reads.at)
           name == Head(reads.parts)
       IN  IF reads.parts = << >> THEN ReadEnds("KeyError", "Empty path", None)
           ELSE IF tree \notin odb THEN ReadEnds("KeyError", "object not found", None)
           ELSE IF Len(reads.parts) > 1
           THEN IF name \notin DOMAIN tree.entries
                THEN ReadEnds("KeyError", "Directory not found", None)
                ELSE IF tree.entries[name].filemode # GITMODE_TREE
                THEN ReadEnds("KeyError", "Path component is not a directory", None)
                ELSE reads' = [reads EXCEPT !.cur = tree.entries[name].id,
                                            !.at = Append(reads.at, name),
                                            !.parts = Tail(reads.parts)]
           ELSE IF name \notin DOMAIN tree.entries
                THEN ReadEnds("KeyError", "File not found", None)
                ELSE IF tree.entries[name].filemode = GITMODE_TREE
                THEN ReadEnds("KeyError", "Path is a directory", None)
                ELSE IF tree.entries[name].id \notin odb
                THEN ReadEnds("KeyError", "object not found", None)
                ELSE ReadEnds("", "", decode_utf8_replace(tree.entries[name].id.data))
    /\ UNCHANGED <<odb, commits, ref, origin, needsCred, last, calls, done, cache>>

NextReaders ==
    \/ UfcReadTip("w1")
    \/ UfcWriteTree("w1")
    \/ UfcCreateCommit("w1")
    \/ UfcPush("w1")
    \/ ReadBegin
    \/ ReadList
    \/ ReadWalk

SpecReaders == Init /\ [][NextReaders]_vars

(***************************************************************************)
(* Vocabulary of the properties.                                           *)
(***************************************************************************)
\* the root tree at the local reference now, and before the last call
TipTree == commits[ref].tree

PreTree == last.pre.commits[last.pre.ref].tree

\* the segments of the last call's path arguments
Parts == PathParts(last.path)

DstParts == PathParts(last.dst)

Prefix(parts, k) == SubSeq(parts, 1, k)

IsPrefix(p, q) == Len(p) <= Len(q) /\ Prefix(q, Len(p)) = p

\* the entry a tree holds at a path of one or more segments, None if none
RECURSIVE EntryAt(_, _)
EntryAt(tree, parts) ==
    IF Head(parts) \notin DOMAIN tree.entries THEN None
    ELSE LET e == tree.entries[Head(parts)]
         IN  IF Len(parts) = 1 THEN e
             ELSE IF e.filemode # GITMODE_TREE THEN None
             ELSE EntryAt(e.id, Tail(parts))

IsFileEntry(e) == e # None /\ e.filemode # GITMODE_TREE

IsDirEntry(e) == e # None /\ e.filemode = GITMODE_TREE

\* the paths a listing (the value of get_files) shows, at every depth
RECURSIVE ListedPaths(_)
ListedPaths(listing) ==
    UNION {{<<n>>} \cup (IF listing[n] = None THEN {}
                        ELSE {<<n>> \o q : q \in ListedPaths(listing[n].dict)})
           : n \in DOMAIN listing}

\* the error of the taxonomy that an exception of the code stands for
ErrorKind(exc, msg) ==
    IF exc = "" THEN "none"
    ELSE IF exc = "KeyError"
    THEN CASE msg \in {"Empty path", "Invalid path",
                       "src_path and dst_path are required"} -> "InvalidPath"
           [] msg \in {"File not found", "Directory not found", "Path not found",
                       "Source not found", "reference not found"} -> "NotFound"
           [] msg = "Path component is not a directory" -> "NotADirectory"
           [] msg \in {"Path is a directory",
                       "Source is a directory (not supported)"} -> "IsADirectory"
           [] msg \in {"File already exists",
                       "Destination already exists"} -> "Conflict"
           [] OTHER -> msg
    ELSE IF exc = "GitError" /\ msg = "push failed" THEN "PushRejected"
    ELSE exc

LastError == ErrorKind(last.exc, last.msg)

IsWrite == last.op \in {"update_file_content", "create_file", "delete_file",
                        "rename_file"}

IsInsert == last.op \in {"update_file_content", "create_file"}

\* the last call created a Version / left Versions and Pointer alone
Committed ==
    /\ Len(commits) = Len(last.pre.commits) + 1
    /\ ref = Len(commits)

NoNewVersion == commits = last.pre.commits /\ ref = last.pre.ref

ReadNow(path) ==
    LET r == get_file_content(Repo, path)
    IN  [kind |-> ErrorKind(r.exc, r.msg), ret |-> r.ret]

(***************************************************************************)
(* C1. Round trip: after update_file_content(p, c) or create_file(p, c)    *)
(* has returned, get_file_content(p) on the same mirror returns exactly c. *)
(***************************************************************************)
C1_RoundTrip ==
    (IsInsert /\ last.exc = "") =>
        /\ ReadNow(last.path).kind = "none"
        /\ ReadNow(last.path).ret = last.content

\* an existing entry was overwritten with text of multi-byte code points
C1_Witness ==
    /\ IsInsert /\ last.exc = ""
    /\ last.content = C_euro
    /\ EntryAt(PreTree, Parts) # None
    /\ Len(Parts) = 2

(***************************************************************************)
(* C2. create_file(p, c, fail_if_exists=True) when an entry exists at p    *)
(* fails with Conflict, creates no Version and leaves the Pointer alone.   *)
(***************************************************************************)
C2_CreateExistingConflicts ==
    (last.op = "create_file" /\ last.fail_if_exists /\ Parts # << >>
        /\ EntryAt(PreTree, Parts) # None) =>
        (LastError = "Conflict" /\ NoNewVersion)

\* the shortest proper prefix of parts at which tree holds a file, or 0
FileInTheWay(tree, parts) ==
    LET ks == {k \in 1..(Len(parts) - 1) : IsFileEntry(EntryAt(tree, Prefix(parts, k)))}
    IN  IF ks = {} THEN 0 ELSE CHOOSE k \in ks : TRUE

(***************************************************************************)
(* C3. A write to a path with an existing file at an intermediate segment  *)
(* fails with NotADirectory; the file is still there with its content, no  *)
(* Version is created and the Pointer is unchanged.                        *)
(***************************************************************************)
C3_WriteUnderFileRefused ==
    (IsInsert /\ Parts # << >> /\ FileInTheWay(PreTree, Parts) > 0) =>
        /\ LastError = "NotADirectory"
        /\ NoNewVersion
        /\ LET q == Prefix(Parts, FileInTheWay(PreTree, Parts))
           IN  EntryAt(TipTree, q) = EntryAt(PreTree, q)

(***************************************************************************)
(* C4. rename_file(src, dst, fail_if_exists=True) of a file src when an    *)
(* entry exists at dst fails with Conflict, creates no Version, leaves the *)
(* Pointer unchanged and leaves source and destination entries intact.     *)
(***************************************************************************)
C4_RenameOntoExistingConflicts ==
    (last.op = "rename_file" /\ last.fail_if_exists
        /\ Parts # << >> /\ DstParts # << >>
        /\ IsFileEntry(EntryAt(PreTree, Parts))
        /\ EntryAt(PreTree, DstParts) # None) =>
        /\ LastError = "Conflict"
        /\ NoNewVersion
        /\ EntryAt(TipTree, Parts) = EntryAt(PreTree, Parts)
        /\ EntryAt(TipTree, DstParts) = EntryAt(PreTree, DstParts)

C6_NoRollbackOnPushFailure ==
    /\ (IsWrite /\ LastError = "PushRejected") =>
          /\ last.push
          /\ Committed
          /\ commits[ref].parents = <<last.pre.ref>>
          /\ origin = last.pre.origin
          /\ origin # ref
          /\ IsAncestor(Repo, origin, ref)
    /\ (IsWrite /\ last.push /\ Committed /\ origin # ref) => last.exc # ""

C6_Witness ==
    /\ last.op = "update_file_content"
    /\ last.push
    /\ LastError = "PushRejected"
    /\ ref = 2 /\ origin = 1

\* the paths of the files of a tree
RECURSIVE FilesOf(_)
FilesOf(tree) ==
    UNION {IF tree.entries[n].filemode = GITMODE_TREE
           THEN {<<n>> \o q : q \in FilesOf(tree.entries[n].id)}
           ELSE {<<n>>} : n \in DOMAIN tree.entries}

(***************************************************************************)
(* C7. Pruning on delete: a successful delete_file(p) leaves no ancestor   *)
(* directory of p empty: an ancestor that held nothing but p is gone, any  *)
(* other is still a directory with entries.  From {a: {b: {c}}},           *)
(* delete_file("a/b/c") makes get_files() return {} and the new Version    *)
(* reference the empty root tree.                                          *)
(***************************************************************************)
C7_PruningOnDelete ==
    (last.op = "delete_file" /\ Committed) =>
        /\ \A k \in 1..(Len(Parts) - 1) :
              LET q == Prefix(Parts, k)
                  others == {f \in FilesOf(PreTree) : IsPrefix(q, f) /\ f # Parts}
                  e == EntryAt(TipTree, q)
              IN  IF others = {} THEN e = None
                  ELSE IsDirEntry(e) /\ DOMAIN e.id.entries # {}
        /\ EntryAt(TipTree, Parts) = None
        /\ (PreTree = T_nested /\ Parts = <<N_a, N_b, N_c>>) =>
              (TipTree = EmptyTree /\ get_files(Repo).ret = NoEntries)

C7_Witness ==
    /\ last.op = "delete_file" /\ last.exc = ""
    /\ PreTree = T_nested
    /\ Parts = <<N_a, N_b, N_c>>
    /\ get_files(Repo).ret = NoEntries

(***************************************************************************)
(* C8. Directory materialization: a successful write to a path with a      *)
(* missing intermediate directory leaves every intermediate segment a      *)
(* directory and the path a file, and every path listed before is still    *)
(* listed; on an empty root tree a write of "a/b/c" yields                 *)
(* get_files() = {a: {b: {c: null}}}.                                      *)
(***************************************************************************)
C8_DirectoryMaterialization ==
    (IsInsert /\ Committed
        /\ \E k \in 1..(Len(Parts) - 1) : EntryAt(PreTree, Prefix(Parts, k)) = None) =>
        /\ \A k \in 1..(Len(Parts) - 1) : IsDirEntry(EntryAt(TipTree, Prefix(Parts, k)))
        /\ IsFileEntry(EntryAt(TipTree, Parts))
        /\ ListedPaths(_tree_to_dict(PreTree)) \subseteq ListedPaths(get_files(Repo).ret)
        /\ (PreTree = EmptyTree /\ Parts = <<N_a, N_b, N_c>>) =>
              get_files(Repo).ret
                  = (N_a :> [dict |-> (N_b :> [dict |-> (N_c :> None)])])

C8_Witness ==
    /\ IsInsert /\ last.exc = ""
    /\ PreTree = EmptyTree
    /\ Parts = <<N_a, N_b, N_c>>
    /\ get_files(Repo).ret = (N_a :> [dict |-> (N_b :> [dict |-> (N_c :> None)])])

(***************************************************************************)
(* C9. As claimed: after a successful rename_file(src, dst) the entry at   *)
(* dst has the blob and the mode src had, and get_file_content(src) fails  *)
(* with NotFound.                                                          *)
(***************************************************************************)
C9_RenameSourceNotFound ==
    (last.op = "rename_file" /\ last.exc = "") =>
        /\ EntryAt(TipTree, DstParts) = EntryAt(PreTree, Parts)
        /\ ReadNow(last.path).kind = "NotFound"

(***************************************************************************)
(* C9, amended. After a successful rename_file(src, dst) the entry at dst  *)
(* has the blob and the mode src had, and, unless src and dst name the     *)
(* same path, get_file_content(src) fails: with IsADirectory when dst lies *)
(* beneath src, with NotADirectory when src lay beneath dst, and with      *)
(* NotFound otherwise.                                                     *)
(***************************************************************************)
C9_RenamePreservesAndRemoves ==
    (last.op = "rename_file" /\ last.exc = "") =>
        /\ IsFileEntry(EntryAt(PreTree, Parts))
        /\ EntryAt(TipTree, DstParts) = EntryAt(PreTree, Parts)
        /\ Parts # DstParts =>
              ReadNow(last.path).kind =
                  IF IsPrefix(Parts, DstParts) THEN "IsADirectory"
                  ELSE IF IsPrefix(DstParts, Parts) THEN "NotADirectory"
                  ELSE "NotFound"

\* an executable file moved to an unrelated path
C9_Witness ==
    /\ last.op = "rename_file" /\ last.exc = ""
    /\ ~last.fail_if_exists
    /\ EntryAt(PreTree, Parts).filemode = GITMODE_EXEC
    /\ EntryAt(TipTree, DstParts).filemode = GITMODE_EXEC
    /\ ~IsPrefix(Parts, DstParts) /\ ~IsPrefix(DstParts, Parts)
    /\ ReadNow(last.path).kind = "NotFound"

RECURSIVE Lookup(_, _)
Lookup(tree, parts) ==
    IF Head(parts) \notin DOMAIN tree.entries THEN "NotFound"
    ELSE LET e == tree.entries[Head(parts)]
         IN  IF Len(parts) = 1
             THEN IF e.filemode = GITMODE_TREE THEN "IsADirectory" ELSE "File"
             ELSE IF e.filemode # GITMODE_TREE THEN "NotADirectory"
             ELSE Lookup(e.id, Tail(parts))

(***************************************************************************)
(* C11. Mode is preserved across writes: when update_file_content(p, c)    *)
(* overwrites an existing file at p whose mode is executable, the entry at *)
(* p in the new tree still has the executable mode.                        *)
(***************************************************************************)
C11_ModePreservedOnOverwrite ==
    (last.op = "update_file_content" /\ last.exc = "" /\ Parts # << >>
        /\ IsFileEntry(EntryAt(PreTree, Parts))
        /\ EntryAt(PreTree, Parts).filemode = GITMODE_EXEC) =>
        /\ IsFileEntry(EntryAt(TipTree, Parts))
        /\ EntryAt(TipTree, Parts).filemode = GITMODE_EXEC

(***************************************************************************)
(* C12. Malformed path rejected before any object is created: a read,      *)
(* update, create, delete or rename whose path normalizes to zero segments *)
(* fails with InvalidPath, and no blob, tree or Version has been added to  *)
(* the mirror and the Pointer is unchanged.                                *)
(***************************************************************************)
C12_MalformedPathRejected ==
    ((IsWrite \/ last.op = "get_file_content")
        /\ (Parts = << >> \/ (last.op = "rename_file" /\ DstParts = << >>))) =>
        /\ LastError = "InvalidPath"
        /\ odb = last.pre.odb
        /\ NoNewVersion

(***************************************************************************)
(* C13. Delete error outcomes: delete_file(p) fails with NotFound when no  *)
(* entry exists at p or an intermediate directory is missing, with         *)
(* IsADirectory when the entry at p is a Tree, and with NotADirectory when *)
(* an intermediate segment is a file; in each case no tree or Version is   *)
(* written and the Pointer is unchanged.                                   *)
(***************************************************************************)
C13_DeleteErrorOutcomes ==
    (last.op = "delete_file" /\ Parts # << >> /\ Lookup(PreTree, Parts) # "File") =>
        /\ LastError = Lookup(PreTree, Parts)
        /\ odb = last.pre.odb
        /\ NoNewVersion
        /\ origin = last.pre.origin

\* a delete beneath a file was refused
C13_Witness ==
    /\ last.op = "delete_file"
    /\ PreTree = T_mixed
    /\ Parts = <<N_a, N_b>>
    /\ LastError = "NotADirectory"
    /\ NoNewVersion

(***************************************************************************)
(* C14. Read error outcomes: get_file_content(p) fails with IsADirectory   *)
(* when the final segment of p names a Tree, with NotFound when the final  *)
(* or any intermediate segment is absent, and with NotADirectory when an   *)
(* intermediate segment names a file; it returns no content in these       *)
(* cases, and returns content in every other.                              *)
(***************************************************************************)
C14_ReadErrorOutcomes ==
    (last.op = "get_file_content" /\ Parts # << >>) =>
        IF Lookup(PreTree, Parts) = "File"
        THEN last.exc = ""
        ELSE LastError = Lookup(PreTree, Parts) /\ last.ret = None

\* a read beneath a file was refused
C14_Witness ==
    /\ last.op = "get_file_content"
    /\ PreTree = T_mixed
    /\ Parts = <<N_a, N_b, N_c>>
    /\ LastError = "NotADirectory"
    /\ last.ret = None

(***************************************************************************)
(* C15. As claimed: rename_file(src, dst) fails with NotFound when no      *)
(* entry exists at src and with IsADirectory when src names a directory;   *)
(* no Version is created, the Pointer is unchanged, nothing is pushed.     *)
(***************************************************************************)
C15_RenameSourceErrors ==
    (last.op = "rename_file" /\ Parts # << >> /\ DstParts # << >>
        /\ ~IsFileEntry(EntryAt(PreTree, Parts))) =>
        /\ LastError = IF IsDirEntry(EntryAt(PreTree, Parts)) THEN "IsADirectory"
                       ELSE "NotFound"
        /\ NoNewVersion
        /\ origin = last.pre.origin

(***************************************************************************)
(* C15, amended. rename_file(src, dst), src and dst of one or more         *)
(* segments each, fails with NotFound when the final or an intermediate    *)
(* segment of src is absent, with NotADirectory when an intermediate       *)
(* segment of src is a file, and with IsADirectory when src names a        *)
(* directory.  No Version is created, the Pointer is unchanged, nothing is *)
(* pushed and no object is written.                                        *)
(***************************************************************************)
C15_RenameSourceResolution ==
    (last.op = "rename_file" /\ Parts # << >> /\ DstParts # << >>
        /\ Lookup(PreTree, Parts) # "File") =>
        /\ LastError = Lookup(PreTree, Parts)
        /\ NoNewVersion
        /\ origin = last.pre.origin
        /\ odb = last.pre.odb

\* a rename of a directory was refused though the push was asked for
C15_Witness ==
    /\ last.op = "rename_file"
    /\ last.push
    /\ PreTree = T_sibs
    /\ Parts = <<N_a>>
    /\ DstParts = <<N_a, N_b, N_c>>
    /\ LastError = "IsADirectory"
    /\ NoNewVersion

\* a caller is inside the read-tip / mutate / rebind / push sequence
InWrite(w) == calls[w].pc # "idle"

\* an ended call was refused at its commit step / moved the Pointer there
Refused(d) == d.exc = "GitError" /\ d.msg = "current tip is not the first parent"

Rebound(d) == ~Refused(d)

Unrelated(p, q) == ~IsPrefix(p, q) /\ ~IsPrefix(q, p)

(***************************************************************************)
(* C16. Per-Session serialization of writes: at no time are two write      *)
(* operations on the same Session both inside the read-tip / mutate /      *)
(* rebind / push sequence.                                                 *)
(***************************************************************************)
C16_WritesSerialized ==
    \A v, w \in Callers : (InWrite(v) /\ InWrite(w)) => v = w

(***************************************************************************)
(* C17. As claimed: two writes on the same Session that read the same tip  *)
(* both complete their local rebind without error, the later rebind        *)
(* discarding the earlier writer's change.                                 *)
(***************************************************************************)
C17_StaleRebindOverwrites ==
    \A i, j \in 1..Len(done) :
        (i # j /\ done[i].tip = done[j].tip) =>
            (Rebound(done[i]) /\ Rebound(done[j]))

(***************************************************************************)
(* C17, amended. Of the writes on the same Session that read the same tip, *)
(* at most one completes its local rebind and every other fails at its     *)
(* commit step; no writer's change is discarded: every Version a write     *)
(* created is the Pointer's target or an ancestor of it, each Version      *)
(* following the one created before it.                                    *)
(***************************************************************************)
C17_NoLostUpdate ==
    /\ \A i, j \in 1..Len(done) :
          (i # j /\ done[i].tip = done[j].tip) =>
              (Refused(done[i]) \/ Refused(done[j]))
    /\ ref = Len(commits)
    /\ \A k \in 2..Len(commits) : commits[k].parents = <<k - 1>>
    /\ \A i \in 1..Len(done) :
          Rebound(done[i]) => IsAncestor(Repo, done[i].at + 1, ref)

\* two overlapping writes to a/b and a/c of an empty tree: one is refused
C17_Witness ==
    /\ Len(done) = 2
    /\ done[1].tip = done[2].tip
    /\ commits[1].tree = EmptyTree
    /\ Unrelated(PathParts(done[1].path), PathParts(done[2].path))
    /\ Rebound(done[1]) /\ Refused(done[2])
    /\ ListedPaths(get_files(Repo).ret)
           = {<<N_a>>, <<N_a>> \o <<PathParts(done[1].path)[2]>>}

(***************************************************************************)
(* C18. Stale-predecessor rebind is refused: if the Pointer's target       *)
(* changed between the moment a write read the tip and the moment it       *)
(* creates its Version, the commit step fails with Conflict and the        *)
(* Pointer is not rebound to that write's Version; a write whose tip is    *)
(* still the Pointer's target is not refused.                              *)
(***************************************************************************)
C18_StaleRebindRefused ==
    /\ \A i \in 1..Len(done) :
          /\ done[i].at # done[i].tip => (Refused(done[i]) /\ done[i].ret = 0)
          /\ done[i].at = done[i].tip =>
                /\ Rebound(done[i])
                /\ commits[done[i].at + 1].tree = done[i].tree
                /\ commits[done[i].at + 1].parents = <<done[i].tip>>
    /\ \A k, l \in 1..Len(commits) :
          (commits[k].parents = commits[l].parents /\ commits[k].parents # << >>)
              => k = l

\* the second writer is refused and the Pointer stays on the first's Version
C18_Witness ==
    /\ Len(done) = 2
    /\ done[2].tip = 1 /\ done[2].at = 2
    /\ Refused(done[2])
    /\ ref = 2
    /\ commits[2].tree = done[1].tree

(***************************************************************************)
(* C19. Sequential writes accumulate: two sequential (non-overlapping)     *)
(* writes on the same Session to different paths p1 and p2, neither a      *)
(* prefix of the other, both create their Version and both return it when  *)
(* the origin takes their push; afterwards get_files() lists both and each *)
(* of p1, p2 reads back the content written to it.                         *)
(***************************************************************************)
C19_SequentialWritesAccumulate ==
    (Started = 2 /\ Len(done) = 2 /\ done[2].began >= 1
        /\ Unrelated(PathParts(done[1].path), PathParts(done[2].path))) =>
        /\ \A i \in 1..2 :
              /\ Rebound(done[i])
              /\ (~done[i].push \/ done[i].net_ok) =>
                    (done[i].exc = "" /\ done[i].ret = done[i].tip + 1)
              /\ PathParts(done[i].path) \in ListedPaths(get_files(Repo).ret)
              /\ get_file_content(Repo, done[i].path).exc = ""
              /\ get_file_content(Repo, done[i].path).ret = done[i].content
        /\ done[2].tip = done[1].tip + 1
        /\ ref = done[2].tip + 1

\* a/b then a/c, by two callers with their own texts, both pushed
C19_Witness ==
    /\ Len(done) = 2 /\ done[2].began >= 1
    /\ done[1].caller # done[2].caller
    /\ PathParts(done[1].path) = <<N_a, N_b>>
    /\ PathParts(done[2].path) = <<N_a, N_c>>
    /\ done[1].exc = "" /\ done[2].exc = ""
    /\ done[1].push /\ done[2].push
    /\ origin = 3
    /\ get_file_content(Repo, done[1].path).ret = done[1].content
    /\ get_file_content(Repo, done[2].path).ret = done[2].content

(***************************************************************************)
(* C20. One rebind per successful write, chained to the prior tip: each    *)
(* successful update, create, delete or rename creates exactly one new     *)
(* Version, whose sole predecessor is the Version the Pointer targeted     *)
(* when the operation began, and moves the Pointer to that Version, whose  *)
(* identifier is the value returned.                                       *)
(***************************************************************************)
C20_OneRebindPerWrite ==
    (IsWrite /\ last.exc = "") =>
        /\ Len(commits) = Len(last.pre.commits) + 1
        /\ SubSeq(commits, 1, Len(last.pre.commits)) = last.pre.commits
        /\ commits[Len(commits)].parents = <<last.pre.ref>>
        /\ ref = Len(commits)
        /\ last.ret = ref

\* a rename that returned the Version it created
C20_Witness ==
    /\ last.op = "rename_file" /\ last.exc = ""
    /\ last.pre.ref = 1
    /\ commits[2].parents = <<1>>
    /\ ref = 2 /\ last.ret = 2

\* the files of a tree: path, blob and mode of each
FileEntries(tree) == {[path |-> q, entry |-> EntryAt(tree, q)] : q \in FilesOf(tree)}

\* the paths of the directories of a tree
RECURSIVE DirsOf(_)
DirsOf(tree) ==
    UNION {IF tree.entries[n].filemode = GITMODE_TREE
           THEN {<<n>>} \cup {<<n>> \o q : q \in DirsOf(tree.entries[n].id)}
           ELSE {} : n \in DOMAIN tree.entries}

\* a path string without its repeated, leading and trailing separators
RECURSIVE Dedup(_)
Dedup(s) ==
    IF Len(s) < 2 THEN s
    ELSE IF s[1] = SLASH /\ s[2] = SLASH THEN Dedup(Tail(s))
    ELSE <<s[1]>> \o Dedup(Tail(s))

Strip(s) ==
    LET a == IF s # << >> /\ Head(s) = SLASH THEN Tail(s) ELSE s
    IN  IF a # << >> /\ a[Len(a)] = SLASH THEN SubSeq(a, 1, Len(a) - 1) ELSE a

Squeeze(path) == Strip(Dedup(path))

\* path strings of the inputs that differ from path by such separators only
SameSegments(path) == {q \in PathArgs : Squeeze(q) = Squeeze(path)}

\* the tip tree a call leaves
TreeAfter(out) == out.repo.commits[out.repo.ref].tree

(***************************************************************************)
(* C22. Path normalization equivalence: two path strings that differ only  *)
(* by leading, trailing or repeated separators address the same entry for  *)
(* every operation: a read, an update, a create, a delete and a rename     *)
(* through either gives the same outcome and the same tree; what was       *)
(* written through one reads back through the other, and what was deleted  *)
(* through one is gone through the other.                                  *)
(***************************************************************************)
C22_PathNormalization ==
    /\ \A p \in PathArgs : \A q \in SameSegments(p) :
          /\ get_file_content(Repo, p) = get_file_content(Repo, q)
          /\ LET up == update_file_content(Repo, p, C_x, "", FALSE, TRUE)
                 uq == update_file_content(Repo, q, C_x, "", FALSE, TRUE)
                 cp == create_file(Repo, p, C_x, "", FALSE, TRUE, TRUE)
                 cq == create_file(Repo, q, C_x, "", FALSE, TRUE, TRUE)
                 dp == delete_file(Repo, p, "", FALSE, TRUE)
                 dq == delete_file(Repo, q, "", FALSE, TRUE)
                 rp == rename_file(Repo, p, P_ac, "", FALSE, FALSE, TRUE)
                 rq == rename_file(Repo, q, P_ac, "", FALSE, FALSE, TRUE)
             IN  /\ up.exc = uq.exc /\ TreeAfter(up) = TreeAfter(uq)
                 /\ cp.exc = cq.exc /\ TreeAfter(cp) = TreeAfter(cq)
                 /\ dp.exc = dq.exc /\ dp.msg = dq.msg /\ TreeAfter(dp) = TreeAfter(dq)
                 /\ rp.exc = rq.exc /\ rp.msg = rq.msg /\ TreeAfter(rp) = TreeAfter(rq)
    /\ (IsInsert /\ last.exc = "") =>
          \A q \in SameSegments(last.path) :
              /\ ReadNow(q).kind = "none"
              /\ ReadNow(q).ret = last.content
    /\ (last.op = "delete_file" /\ last.exc = "") =>
          \A q \in SameSegments(last.path) : ReadNow(q).kind = "NotFound"

\* a/b was written as "/a//b/" and reads back as "a/b"
C22_Witness ==
    /\ last.op = "update_file_content" /\ last.exc = ""
    /\ last.path = P_ab_decorated
    /\ last.content = C_euro
    /\ ReadNow(P_ab).kind = "none"
    /\ ReadNow(P_ab).ret = C_euro

(***************************************************************************)
(* C23. Reads are pure and listing is stable: get_files() and              *)
(* get_file_content() never change the local Pointer, never add objects to *)
(* the mirror and never push; a second get_files() with no write in        *)
(* between returns the structure the first returned.                       *)
(***************************************************************************)
C23_ReadsArePure ==
    (last.op \in {"get_files", "get_file_content"}) =>
        /\ odb = last.pre.odb
        /\ commits = last.pre.commits
        /\ ref = last.pre.ref
        /\ origin = last.pre.origin
        /\ last.op = "get_files" =>
              (get_files(Repo).exc = "" /\ get_files(Repo).ret = last.ret)

\* a listing of a tree with nested directories
C23_Witness ==
    /\ last.op = "get_files"
    /\ TipTree = T_sibs
    /\ ListedPaths(last.ret) = {<<N_a>>, <<N_a, N_b>>, <<N_a, N_c>>, <<N_b>>}
    /\ Repo = last.pre

C26_RenameIsDeleteThenInsert ==
    (last.op = "rename_file" /\ Parts # << >> /\ DstParts # << >>
        /\ IsFileEntry(EntryAt(PreTree, Parts))) =>
        LET e == EntryAt(PreTree, Parts)
            deleted == TreeAfter(delete_file(last.pre, last.path, "", FALSE, TRUE))
            inserted == _write_tree_with_update(deleted, DstParts, e.id, e.filemode).oid
        IN  /\ Committed
            /\ TipTree = inserted
            /\ EntryAt(TipTree, DstParts) = e
            /\ FileEntries(TipTree)
                  = {f \in FileEntries(deleted) :
                        ~IsPrefix(f.path, DstParts) /\ ~IsPrefix(DstParts, f.path)}
                    \cup {[path |-> DstParts, entry |-> e]}

\* a/b/c -> a/c: the destination lies in a directory the deletion pruned
C26_Witness ==
    /\ last.op = "rename_file" /\ last.exc = ""
    /\ PreTree = T_nested
    /\ Parts = <<N_a, N_b, N_c>>
    /\ DstParts = <<N_a, N_c>>
    /\ TipTree = Tree(N_a :> Dir(Tree(N_c :> File(B_x))))

(***************************************************************************)
(* C27. Delete touches only its own path: after a successful               *)
(* delete_file(p), every file that existed before at a path other than p   *)
(* still exists with the same blob id and mode, every subtree not on p's   *)
(* ancestor chain keeps its tree identifier, and the only entries removed  *)
(* besides p are ancestor directories of p that became empty.              *)
(***************************************************************************)
C27_DeleteTouchesOnlyItsPath ==
    (last.op = "delete_file" /\ Committed) =>
        /\ FileEntries(TipTree)
              = {f \in FileEntries(PreTree) : f.path # Parts}
        /\ \A q \in DirsOf(PreTree) :
              IF IsPrefix(q, Parts)
              THEN (q \notin DirsOf(TipTree)) <=> (FilesOf(EntryAt(PreTree, q).id)
                       = {SubSeq(Parts, Len(q) + 1, Len(Parts))})
              ELSE EntryAt(TipTree, q) = EntryAt(PreTree, q)

\* a/b deleted next to a/c: a/c and b stay, a is rebuilt
C27_Witness ==
    /\ last.op = "delete_file" /\ last.exc = ""
    /\ PreTree = T_sibs
    /\ Parts = <<N_a, N_b>>
    /\ TipTree = Tree((N_a :> Dir(Tree(N_c :> Exec(B_sh)))) @@ (N_b :> File(B_x)))

(***************************************************************************)
(* C29. A write removes no other file: after a successful                  *)
(* update_file_content(p, c), create_file(p, c) or rename_file(src, p),    *)
(* every file that existed before at a path q different from p (and, for   *)
(* rename, from src) still exists with the same content and mode, also     *)
(* when p names an existing directory or an ancestor segment of p names an *)
(* existing file.                                                          *)
(***************************************************************************)
C29_WriteRemovesNoOtherFile ==
    ((IsInsert \/ last.op = "rename_file") /\ last.exc = "") =>
        LET p == IF last.op = "rename_file" THEN DstParts ELSE Parts
            src == IF last.op = "rename_file" THEN Parts ELSE p
        IN  \A f \in FileEntries(PreTree) :
                (f.path # p /\ f.path # src) => f \in FileEntries(TipTree)

(***************************************************************************)
(* C24. Opening against an empty/uninitialized origin: when the fetch      *)
(* brings nothing (no local ref, no remote-tracking ref, no FETCH_HEAD),   *)
(* opening the Session succeeds with the ref left absent, and it is the    *)
(* later resolution (list, read or write) that fails with NotFound.        *)
(***************************************************************************)
C24_OpenOnEmptyOrigin ==
    (last.op = "__init__" /\ last.fetched = "nothing") =>
        /\ last.exc = ""
        /\ ref = 0
        /\ ErrorKind(get_files(Repo).exc, get_files(Repo).msg) = "NotFound"
        /\ ReadNow(P_a).kind = "NotFound"
        /\ update_file_content(Repo, P_a, C_x, "", FALSE, TRUE).exc = "KeyError"

(***************************************************************************)
(* C28. Successful push publishes the tip: whenever a write operation with *)
(* push=True returns successfully, the origin's same-named ref targets the *)
(* same Version as the local Pointer, also when earlier writes on the      *)
(* Session had created Versions whose push failed.                         *)
(***************************************************************************)
C28_PushPublishesTip ==
    (IsWrite /\ last.push /\ last.exc = "") =>
        /\ origin = ref
        /\ ref = Len(commits)
        /\ last.ret = origin

\* a push that published its Version together with one whose push had failed
C28_Witness ==
    /\ IsWrite /\ last.push /\ last.exc = ""
    /\ last.pre.ref = 2 /\ last.pre.origin = 1
    /\ ref = 3 /\ origin = 3

(***************************************************************************)
(* C30. Every push presents the Session's credential: the push of each     *)
(* write operation (update, create, delete, rename) of a Session opened    *)
(* with a token uses the credential of the fetch, so a write on an origin  *)
(* that requires the credential, and that is within reach, is not rejected *)
(* after the local Pointer has advanced.                                   *)
(***************************************************************************)
C30_PushPresentsCredential ==
    (IsWrite /\ last.push /\ last.net_ok /\ needsCred /\ Committed) =>
        /\ last.exc = ""
        /\ origin = ref

\* the tokens that have a Remote in the cache
Cached == {t \in Tokens : cache.singletons[t] # None}

\* the requests that obtained a Remote
Obtained == {x \in cache.served : x[2] # 0}

C33_FailedOpenNotCached ==
    [][\A t \in Tokens :
          (cache'.req.token = t /\ HasUri(t) /\ cache.singletons[t] = None) =>
              /\ cache'.created[t] = cache.created[t] + 1
              /\ cache'.req.id = 0 =>
                    /\ cache'.singletons[t] = None
                    /\ cache'.req.status = 500
              /\ cache'.req.id # 0 => cache'.singletons[t] # None]_vars

\* the second request of t1 attempted the construction again, and failed again
C33_Witness ==
    /\ cache.req # None
    /\ cache.req.token = "t1" /\ cache.req.id = 0 /\ cache.req.status = 500
    /\ cache.created["t1"] = 2
    /\ cache.singletons["t1"] = None

\* the origin's ref is at a Version that is not the Pointer of R nor one of
\* its ancestors
DivergedIn(R) == R.ref # 0 /\ ~IsAncestor(R, R.origin, R.ref)

Diverged == DivergedIn(Repo)

(***************************************************************************)
(* C31. A diverged Session never recovers: once the origin's ref is at a   *)
(* Version that is not an ancestor of the local Pointer it stays so (the   *)
(* Session never fetches again and never rolls back), no write with        *)
(* push=True returns successfully from then on, every such write that      *)
(* creates a Version ends in a push failure with the Pointer advanced by   *)
(* one and the origin as it was, and reads return the local, unpublished   *)
(* state.                                                                  *)
(***************************************************************************)
C31_DivergedNeverRecovers ==
    /\ [][Diverged => Diverged']_vars
    /\ [](  (IsWrite /\ last.push /\ last.pre # None /\ DivergedIn(last.pre)) =>
              /\ last.exc # ""
              /\ origin = last.pre.origin
              /\ commits # last.pre.commits =>
                    /\ last.exc = "GitError" /\ last.msg = "push failed"
                    /\ Committed
                    /\ ref = last.pre.ref + 1
                    /\ get_files(Repo).ret = _tree_to_dict(commits[ref].tree)
                    /\ last.op = "update_file_content" =>
                          /\ ReadNow(last.path).kind = "none"
                          /\ ReadNow(last.path).ret = last.content)

\* the second write in a row whose push the origin rejected, the network up
C31_Witness ==
    /\ last.op = "update_file_content" /\ last.push /\ last.net_ok
    /\ last.exc = "GitError"
    /\ DivergedIn(last.pre)
    /\ origin < 0
    /\ ref = 3
    /\ ReadNow(last.path).kind = "none"

\* the entries of a listing, each with its path and whether it is a directory
RECURSIVE Flat(_, _)
Flat(d, at) ==
    UNION {{<<Append(at, n), d[n] # None>>}
           \cup (IF d[n] # None THEN Flat(d[n].dict, Append(at, n)) ELSE {})
           : n \in DOMAIN d}

\* what get_files returns at Version k
ListingAt(k) == Flat(get_files([Repo EXCEPT !.ref = k]).ret, << >>)

\* the read that ended returned what the same call returns at Version k
ReadIsOf(k) ==
    IF reads.op = "get_files"
    THEN reads.exc = "" /\ reads.ret = ListingAt(k)
    ELSE LET r == get_file_content([Repo EXCEPT !.ref = k], reads.path)
         IN  /\ reads.exc = r.exc
             /\ reads.msg = r.msg
             /\ r.exc = "" => reads.ret = r.ret

(***************************************************************************)
(* C32. Reads see whole snapshots under concurrency: a get_files() or a    *)
(* get_file_content() that runs while writes are made through the same     *)
(* Remote returns what the call returns at exactly one of the Versions the *)
(* ref was at between its beginning and its end, never entries of one      *)
(* Version mixed with entries of another.                                  *)
(***************************************************************************)
C32_ReadsSeeOneVersion ==
    reads.pc = "done" => \E k \in reads.first..reads.last : ReadIsOf(k)

\* a listing that ended after a write had changed the listing
C32_Witness ==
    /\ reads.pc = "done" /\ reads.op = "get_files"
    /\ reads.last > reads.first
    /\ ListingAt(reads.first) # ListingAt(reads.last)
    /\ Cardinality(reads.ret) > 2
    /\ ReadIsOf(reads.first)

====
